---- MODULE Spec2Model ----
(***************************************************************************)
(* A model of the task-composition runner of wiinuk/ntx (src/src/index.ts).*)
(*                                                                         *)
(* src/src/index.ts holds two versions of the library: the chokidar based  *)
(* one (lines 1-207) and the fs.watch based one (lines 209-398).  They     *)
(* differ in TaskImpl.watch; the variable `variant` says which one runs.   *)
(*                                                                         *)
(* Promises are modelled by their state ("pending", "fulfilled",           *)
(* "rejected") and reason; a reaction registered with then/catch is a      *)
(* microtask, which runs before the next event of the watch adapter.       *)
(***************************************************************************)
EXTENDS Integers, Sequences, FiniteSets, TLC

\* ------------------------------------------------------------------ bounds

\* change notifications the filesystem produces in one behaviour
MaxChanges == 4

\* component tasks handed to all(...)
MaxTasks == 3

\* interpolations of a command template
MaxParts == 2

\* keys of the task mapping handed to start
MaxKeys == 2

\* task objects constructed in one behaviour
MaxObjs == 3

\* calls of run, and change notifications, in one behaviour of the task objects
MaxRuns == 2

\* ------------------------------------------------------------------ program constants

\* the triggers the test "makeOnChange" fires: for (let i = 10; i--;)
NumTriggers == 10

\* ------------------------------------------------------------------ state

VARIABLES
    variant,        \* which TaskImpl.watch is running: "chokidar" or "fs"
    last,           \* watch: `let last`, as the index of the link it refers to (0: Promise.resolve())
    links,          \* watch: one record per `last.then(() => this.run(env))` ever chained
    result,         \* watch: the promise returned by task.watch(glob).run(env)
    listeners,      \* watch: events of the adapter w that have a listener attached
    closed,         \* watch: w.close() was called
    adapterErrored, \* the adapter has emitted "error"
    changes,        \* change notifications produced so far (delivered or not)
    log,            \* history: <<"begin", k>>, <<"end", k>> of the wrapped task's runs; <<"error", 0>>
    firstFailure,   \* history: the first failure encountered (of a run or of the adapter)
    ocNext,         \* makeOnChange test: the next trigger value of the loop `for (let i = 10; i--;)`
    ocRunning,      \* makeOnChange: the argument list of the run of f in flight, <<>> when none
    ocPending,      \* makeOnChange: the triggers received while a run is in flight
    ocLog,          \* makeOnChange test: `log`, as a sequence of <<"trigger"|"begin"|"end", args>>
    cKind,          \* combinators: the combinator that built the composite task: "then", "let", "all"
    cTasks,         \* combinators: the names of the component tasks, in order (let: a, then t = f(v))
    cF,             \* let: the continuation, as the name of the task f(v) for each value v
    cName,          \* combinators: the name of the composite task
    cEnv,           \* combinators: the environment handed to the composite's run
    cPc,            \* combinators: "built", "running", "done" (the composite's promise is settled)
    cCalls,         \* history: the calls of run on component tasks, in order: [task, env]
    cSub,           \* combinators: per component task "idle", "running", "ok", "failed"
    cVals,          \* combinators: per component task the value its run resolved with (0: none)
    cApplied,       \* let: the values the continuation was applied to, in order
    cOut,           \* combinators: the promise returned by the composite's run
    cDone,          \* history: the component tasks of all, in the order their runs settled
    envPath,        \* process.env.path
    binState,       \* the module's promise npmBinPath: "pending", "resolved", "rejected"
    rKinds,         \* r: the interpolations of command 1, each "string", "promise" or "task"
    rIst,           \* r: per interpolation "none" (a task not yet run), "pending", "resolved", "rejected"
    rIdx,           \* r: the loop's i - the interpolation command 1 awaits (Len + 1: loop done)
    rXs,            \* r: `xs`, the pieces of command 1 pushed so far
    rPc,            \* r: per command "idle", "interp", "awaitBin", "spawned", "done"
    rRead,          \* r: per command the value of process.env.path read before `await npmBinPath`
    rOld,           \* overrideEnvAsync: per command `oldValue`
    rOut,           \* r: per command the promise returned by run
    rSpawned,       \* history: the processes spawned, in order: [cmd, command]
    rFinished,      \* history: the commands whose spawned process has ended, in order
    sFactory,       \* start: tasksOrFunction is a function (a task factory)
    sKeys,          \* start: Object.keys(tasks) of the mapping handed over or made by the factory
    sArg,           \* start: process.argv[2]
    sTasks,         \* start: `tasks` - "unknown", "ready", "failed" (the factory rejected)
    sPc,            \* start: "idle", "awaitFactory", "running" (the task's run is pending), "done"
    sStarted,       \* history: the tasks started: [task, name, env]
    sOut,           \* start: the promise of startAsync: [st, msg]
    sErrLog,        \* start: what console.error has printed, in order
    tHeap,          \* tasks: the TaskImpl objects constructed, in order: [name, run]
    tRuns,          \* history: the tasks whose run was called, in order
    tExecs,         \* history: how many times the underlying work was executed
    tChains,        \* watch: per run of a watch task [task, last] - its own `last`
    tLinks          \* watch: per `last.then(...)` of any run [chain, on]

watchVars == <<variant, last, links, result, listeners, closed, adapterErrored,
               changes, log, firstFailure>>

ocVars == <<ocNext, ocRunning, ocPending, ocLog>>

combVars == <<cKind, cTasks, cF, cName, cEnv, cPc, cCalls, cSub, cVals, cApplied, cOut,
              cDone>>

cmdVars == <<envPath, binState, rKinds, rIst, rIdx, rXs, rPc, rRead, rOld, rOut, rSpawned,
             rFinished>>

startVars == <<sFactory, sKeys, sArg, sTasks, sPc, sStarted, sOut, sErrLog>>

taskVars == <<tHeap, tRuns, tExecs, tChains, tLinks>>

vars == <<watchVars, ocVars, combVars, cmdVars, startVars, taskVars>>

\* ------------------------------------------------------------------ values

Variants == {"chokidar", "fs"}

NoErr == <<"none", 0>>
\* the error the watch adapter reports
WatchErr == <<"adapter", 0>>
\* the error the k-th chained run of the wrapped task fails with
RunErr(k) == <<"run", k>>

Pending == [st |-> "pending", reason |-> NoErr]

\* the executor's reject: settles a pending promise, and is a no-op on a settled one
reject(p, e) == IF p.st = "pending" THEN [st |-> "rejected", reason |-> e] ELSE p

\* the event the change handler listens to
ChangeEvent(v) == IF v = "chokidar" THEN "all" ELSE "change"

\* ------------------------------------------------------------------ watch

\* The state of the promise `last` held after link k was chained:
\*   chokidar: last.then(run).catch(reject) - reject returns undefined, so the
\*             promise is fulfilled as soon as the run has settled either way;
\*   fs:       last.then(run) - the promise of the link itself.
ChainState(v, ls, k) ==
    IF k = 0 THEN "fulfilled"
    ELSE IF ls[k].st \in {"waiting", "running"} THEN "pending"
    ELSE IF v = "chokidar" THEN "fulfilled"
    ELSE ls[k].st

ChainReason(v, ls, k) ==
    IF k = 0 \/ v = "chokidar" THEN NoErr ELSE ls[k].err

\* a bug: the handler chains the run but drops the assignment to `last`
RechainDropped(old, new) == old

\* `last = last.then(...)`: the variable now refers to the new link
Rechain(old, new) == new

\* a reaction of the chain is ready to run as a microtask
Ready(k) ==
    /\ k \in 1..Len(links)
    /\ links[k].st = "waiting"
    /\ ChainState(variant, links, links[k].on) # "pending"

MicrotaskPending == \E k \in 1..Len(links) : Ready(k)

NoteFailure(e) == IF firstFailure = NoErr THEN e ELSE firstFailure

\* a bug: .then(reject) for .catch(reject) - the result is rejected when a run succeeds
SettleOnSuccessBug(v, res, ok, e) ==
    IF v = "chokidar" /\ ok THEN reject(res, e) ELSE res

\* What the settling of a run's promise does to the watch result:
\*   chokidar: .catch(reject) hands a failure to the result's reject;
\*   fs:       nothing listens to the chain.
SettleResult(v, res, ok, e) ==
    IF v = "chokidar" /\ ~ok THEN reject(res, e) ELSE res

\* w.on("all", ...) / the listener handed to fs.watch: a change notification
\* is delivered to the handler, which chains one more run behind `last`.
OnChange ==
    /\ changes < MaxChanges
    /\ ~closed
    /\ ChangeEvent(variant) \in listeners
    /\ ~MicrotaskPending
    /\ changes' = changes + 1
    /\ links' = Append(links, [on |-> last, st |-> "waiting", err |-> NoErr,
                               lateFor |-> adapterErrored])
    /\ last' = Rechain(last, Len(links) + 1)
    /\ UNCHANGED <<variant, result, listeners, closed, adapterErrored, log, firstFailure>>
    /\ UNCHANGED <<ocVars, combVars, cmdVars, startVars, taskVars>>

\* The filesystem changes while the adapter is closed or has no change
\* listener: nothing of the program runs.
ChangeUndelivered ==
    /\ changes < MaxChanges
    /\ (closed \/ ChangeEvent(variant) \notin listeners)
    /\ ~MicrotaskPending
    /\ changes' = changes + 1
    /\ UNCHANGED <<variant, last, links, result, listeners, closed, adapterErrored,
                   log, firstFailure>>
    /\ UNCHANGED <<ocVars, combVars, cmdVars, startVars, taskVars>>

\* The reaction `() => this.run(env)` of link k: called once the promise it
\* was chained on is fulfilled; skipped, the rejection passed on, when that
\* promise is rejected.
ChainStep(k) ==
    /\ Ready(k)
    /\ IF ChainState(variant, links, links[k].on) = "fulfilled"
       THEN /\ links' = [links EXCEPT ![k].st = "running"]
            /\ log' = Append(log, <<"begin", k>>)
       ELSE /\ links' = [links EXCEPT ![k].st = "rejected",
                                      ![k].err = ChainReason(variant, links, links[k].on)]
            /\ log' = Append(log, <<"skip", k>>)
    /\ UNCHANGED <<variant, last, result, listeners, closed, adapterErrored,
                   changes, firstFailure>>
    /\ UNCHANGED <<ocVars, combVars, cmdVars, startVars, taskVars>>

\* The run started by link k completes (ok) or fails.
RunSettles(k, ok) ==
    /\ k \in 1..Len(links)
    /\ links[k].st = "running"
    /\ links' = [links EXCEPT ![k].st = IF ok THEN "fulfilled" ELSE "rejected",
                              ![k].err = IF ok THEN NoErr ELSE RunErr(k)]
    /\ log' = Append(log, <<IF ok THEN "end" ELSE "fail", k>>)
    /\ result' = SettleResult(variant, result, ok, RunErr(k))
    /\ firstFailure' = IF ok THEN firstFailure ELSE NoteFailure(RunErr(k))
    /\ UNCHANGED <<variant, last, listeners, closed, adapterErrored, changes>>
    /\ UNCHANGED <<ocVars, combVars, cmdVars, startVars, taskVars>>

\* w.once("error", ...): the adapter reports an error.
\*   chokidar: removeAllListeners(), close(), reject(e);
\*   fs:       reject(e) (once: the error listener itself is gone).
OnError ==
    /\ ~adapterErrored
    /\ "error" \in listeners
    /\ ~MicrotaskPending
    /\ adapterErrored' = TRUE
    /\ listeners' = IF variant = "chokidar" THEN {} ELSE listeners \ {"error"}
    /\ closed' = IF variant = "chokidar" THEN TRUE ELSE closed
    /\ result' = reject(result, WatchErr)
    /\ firstFailure' = NoteFailure(WatchErr)
    /\ log' = Append(log, <<"error", 0>>)
    /\ UNCHANGED <<variant, last, links, changes>>
    /\ UNCHANGED <<ocVars, combVars, cmdVars, startVars, taskVars>>

\* task.watch(glob).run(env) was called: the executor has run.
InitWatch ==
    /\ variant \in Variants
    /\ last = 0
    /\ links = <<>>
    /\ result = Pending
    /\ listeners = {"error", ChangeEvent(variant)}
    /\ closed = FALSE
    /\ adapterErrored = FALSE
    /\ changes = 0
    /\ log = <<>>
    /\ firstFailure = NoErr

NextWatch ==
    \/ OnChange
    \/ ChangeUndelivered
    \/ \E k \in 1..Len(links) : ChainStep(k)
    \/ \E k \in 1..Len(links), ok \in BOOLEAN : RunSettles(k, ok)
    \/ OnError

\* ------------------------------------------------------------------ makeOnChange

\* The change handler _makeOnChange(f) of the test "makeOnChange": index.ts as
\* given does not hold it, so it is modelled from the behaviour the test
\* asserts and section 8 of the specification describes.

\* a bug: the run after an in-flight run takes one trigger only, the rest is dropped
NextBatchHeadOnly(pending) == <<Head(pending)>>

\* the argument list of the run that follows an in-flight run: all the
\* triggers received meanwhile, in their order
NextBatch(pending) == pending

\* onchange(i, onError): the test's loop fires its next trigger.
OcTrigger ==
    /\ ocNext >= 0
    /\ ocNext' = ocNext - 1
    /\ IF ocRunning = <<>>
       THEN /\ ocRunning' = <<ocNext>>
            /\ ocPending' = ocPending
            /\ ocLog' = ocLog \o <<<<"trigger", <<ocNext>>>>, <<"begin", <<ocNext>>>>>>
       ELSE /\ ocRunning' = ocRunning
            /\ ocPending' = Append(ocPending, ocNext)
            /\ ocLog' = Append(ocLog, <<"trigger", <<ocNext>>>>)
    /\ UNCHANGED <<watchVars, combVars, cmdVars, startVars, taskVars>>

\* The run of f in flight ends; the triggers received meanwhile start the next one.
OcRunEnds ==
    /\ ocRunning # <<>>
    /\ IF ocPending = <<>>
       THEN /\ ocRunning' = <<>>
            /\ ocLog' = Append(ocLog, <<"end", ocRunning>>)
       ELSE /\ ocRunning' = NextBatch(ocPending)
            /\ ocLog' = ocLog \o <<<<"end", ocRunning>>, <<"begin", NextBatch(ocPending)>>>>
    /\ ocPending' = <<>>
    /\ UNCHANGED <<ocNext, watchVars, combVars, cmdVars, startVars, taskVars>>

\* const onchange = _makeOnChange(f), before the loop
InitOnChange ==
    /\ ocNext = NumTriggers - 1
    /\ ocRunning = <<>>
    /\ ocPending = <<>>
    /\ ocLog = <<>>

NextOnChange == OcTrigger \/ OcRunEnds

\* ------------------------------------------------------------------ combinators

\* `name: string | null`: null, as a value no name equals
Null == "<null>"
\* the names a component task may carry
Names == {Null, "", "a", "b", "1"}
\* the names of the environment handed to run
EnvNames == {"_", "build"}
\* the values a task's run resolves with
Values == {1, 2}

\* the failure of the run of component task i
SubErr(i) == <<"task", i>>

OutPending == [st |-> "pending", val |-> <<>>, reason |-> NoErr]
OutValue(v) == [st |-> "fulfilled", val |-> v, reason |-> NoErr]
OutError(e) == [st |-> "rejected", val |-> <<>>, reason |-> e]

\* const combineName = (env, name) => name ? { ...env, name: `${env.name}.${name}` } : env
combineName(env, name) ==
    IF name \notin {Null, ""} THEN [env EXCEPT !.name = env.name \o "." \o name] ELSE env

\* a bug: the composite takes the continuation's name
thenNameOfContinuation(aName, bName) == bName

\* then: new TaskImpl(this.name, ...) - the name of a.then(b)
thenName(aName, bName) == aName

\* a bug: the continuation is run without awaiting a
ThenContinuesAlways(ok) == TRUE

\* then: `await this.run(...)` - the continuation is reached only when a's run fulfils
ThenContinues(ok) == ok

\* a bug (and the environment the specification describes): t's name is
\* appended to the environment already derived for a
LetEnvNested(env, aName, tName) == combineName(combineName(env, aName), tName)

\* let: t.run(combineName(e, t.name)) - the environment t = f(v) is run with
LetEnv(env, aName, tName) == combineName(env, tName)

\* a bug: only the tasks whose derived name collides get an index name
allEnvsRenameDuplicates(env, tasks) ==
    LET es == [i \in 1..Len(tasks) |-> combineName(env, tasks[i])]
    IN  [i \in 1..Len(tasks) |->
            IF \E j \in 1..Len(tasks) : j # i /\ es[j].name = es[i].name
            THEN [env EXCEPT !.name = env.name \o "." \o ToString(i)]
            ELSE es[i]]

\* all: the environments of the sibling tasks -
\*   let es = tasks.map(t => combineName(env, t.name))
\*   if (new Set(es.map(e => e.name)).size !== es.length)
\*       es = es.map((e, i) => ({ ...e, name: `${env.name}.${i + 1}` }))
allEnvs(env, tasks) ==
    LET es == [i \in 1..Len(tasks) |-> combineName(env, tasks[i])]
    IN  IF Cardinality({es[i].name : i \in 1..Len(tasks)}) # Len(tasks)
        THEN [i \in 1..Len(tasks) |-> [env EXCEPT !.name = env.name \o "." \o ToString(i)]]
        ELSE es

\* a.then(b).run(e): a is run with e derived by a's name.
ThenRun(e) ==
    /\ cKind = "then"
    /\ cPc = "built"
    /\ cEnv' = e
    /\ cPc' = "running"
    /\ cCalls' = <<[task |-> 1, env |-> combineName(e, cTasks[1])]>>
    /\ cSub' = <<"running", "idle">>
    /\ UNCHANGED <<cKind, cTasks, cF, cName, cVals, cApplied, cOut, cDone>>
    /\ UNCHANGED <<watchVars, ocVars, cmdVars, startVars, taskVars>>

\* a's run settles: on success b is run with e derived by b's name, on
\* failure the await throws and the composite rejects with a's failure.
ThenAEnds(ok) ==
    /\ cKind = "then"
    /\ cSub[1] = "running"
    /\ cSub' = [cSub EXCEPT ![1] = IF ok THEN "ok" ELSE "failed",
                            ![2] = IF ThenContinues(ok) THEN "running" ELSE "idle"]
    /\ IF ThenContinues(ok)
       THEN /\ cCalls' = Append(cCalls, [task |-> 2, env |-> combineName(cEnv, cTasks[2])])
            /\ UNCHANGED <<cOut, cPc>>
       ELSE /\ cOut' = OutError(SubErr(1))
            /\ cPc' = "done"
            /\ UNCHANGED cCalls
    /\ UNCHANGED <<cKind, cTasks, cF, cName, cEnv, cVals, cApplied, cDone>>
    /\ UNCHANGED <<watchVars, ocVars, cmdVars, startVars, taskVars>>

\* b's run settles: `return continuation.run(...)` - the composite settles as b does.
ThenBEnds(ok, v) ==
    /\ cKind = "then"
    /\ cSub[2] = "running"
    /\ cSub' = [cSub EXCEPT ![2] = IF ok THEN "ok" ELSE "failed"]
    /\ cVals' = [cVals EXCEPT ![2] = IF ok THEN v ELSE 0]
    /\ cOut' = IF cOut.st # "pending" THEN cOut
               ELSE IF ok THEN OutValue(<<v>>) ELSE OutError(SubErr(2))
    /\ cPc' = "done"
    /\ UNCHANGED <<cKind, cTasks, cF, cName, cEnv, cCalls, cApplied, cDone>>
    /\ UNCHANGED <<watchVars, ocVars, cmdVars, startVars, taskVars>>

\* a.let(f).run(e): a is run with e derived by a's name.
LetRun(e) ==
    /\ cKind = "let"
    /\ cPc = "built"
    /\ cEnv' = e
    /\ cPc' = "running"
    /\ cCalls' = <<[task |-> 1, env |-> combineName(e, cTasks[1])]>>
    /\ cSub' = <<"running">>
    /\ UNCHANGED <<cKind, cTasks, cF, cName, cVals, cApplied, cOut, cDone>>
    /\ UNCHANGED <<watchVars, ocVars, cmdVars, startVars, taskVars>>

\* a's run settles: on success with v, t = continuation(v) is run; on
\* failure the await throws and the composite rejects with a's failure.
LetAEnds(ok, v) ==
    /\ cKind = "let"
    /\ cSub = <<"running">>
    /\ IF ok
       THEN /\ cApplied' = Append(cApplied, v)
            /\ cTasks' = Append(cTasks, cF[v])
            /\ cVals' = <<v, 0>>
            /\ cSub' = <<"ok", "running">>
            /\ cCalls' = Append(cCalls, [task |-> 2, env |-> LetEnv(cEnv, cTasks[1], cF[v])])
            /\ UNCHANGED <<cOut, cPc>>
       ELSE /\ cSub' = <<"failed">>
            /\ cOut' = OutError(SubErr(1))
            /\ cPc' = "done"
            /\ UNCHANGED <<cApplied, cTasks, cVals, cCalls>>
    /\ UNCHANGED <<cKind, cF, cName, cEnv, cDone>>
    /\ UNCHANGED <<watchVars, ocVars, cmdVars, startVars, taskVars>>

\* t's run settles: `return t.run(...)` - the composite settles as t does.
LetTEnds(ok, v) ==
    /\ cKind = "let"
    /\ Len(cSub) = 2
    /\ cSub[2] = "running"
    /\ cSub' = [cSub EXCEPT ![2] = IF ok THEN "ok" ELSE "failed"]
    /\ cVals' = [cVals EXCEPT ![2] = IF ok THEN v ELSE 0]
    /\ cOut' = IF ok THEN OutValue(<<v>>) ELSE OutError(SubErr(2))
    /\ cPc' = "done"
    /\ UNCHANGED <<cKind, cTasks, cF, cName, cEnv, cCalls, cApplied, cDone>>
    /\ UNCHANGED <<watchVars, ocVars, cmdVars, startVars, taskVars>>

\* a bug: the siblings are run one after the other, the first one only at the start
AllStartedFirstOnly(n) == 1..1

\* all: tasks.map((t, i) => t.run(es[i])) - the siblings whose run is called,
\* in array order, before Promise.all awaits anything: all n of them
AllStarted(n) == 1..n

\* a bug: the siblings are awaited in array order, so the composite rejects
\* with the failure of the failed sibling that comes first in the array
AllOutcomeInArrayOrder(out, subs, vals, i) ==
    IF \E j \in 1..Len(subs) : subs[j] = "failed"
    THEN OutError(SubErr(CHOOSE j \in 1..Len(subs) :
                      /\ subs[j] = "failed"
                      /\ \A h \in 1..(j - 1) : subs[h] # "failed"))
    ELSE IF \A j \in 1..Len(subs) : subs[j] = "ok" THEN OutValue(vals)
    ELSE out

\* Promise.all, after sibling i has settled (subs, vals: the siblings' states
\* and values after it): a settled promise stays as it is; the first
\* rejection rejects it; it fulfils, with the values in array order, when
\* every sibling has fulfilled.
AllOutcome(out, subs, vals, i) ==
    IF out.st # "pending" THEN out
    ELSE IF subs[i] = "failed" THEN OutError(SubErr(i))
    ELSE IF \A j \in 1..Len(subs) : subs[j] = "ok" THEN OutValue(vals)
    ELSE out

\* all(tasks).run(env): Promise.all(tasks.map((t, i) => t.run(es[i]))) -
\* every task is run, in array order, before anything is awaited.
AllRun(e) ==
    /\ cKind = "all"
    /\ cPc = "built"
    /\ cEnv' = e
    /\ cPc' = "running"
    /\ cCalls' = [i \in AllStarted(Len(cTasks)) |-> [task |-> i, env |-> allEnvs(e, cTasks)[i]]]
    /\ cSub' = [i \in 1..Len(cTasks) |->
                   IF i \in AllStarted(Len(cTasks)) THEN "running" ELSE "idle"]
    /\ UNCHANGED <<cKind, cTasks, cF, cName, cVals, cApplied, cOut, cDone>>
    /\ UNCHANGED <<watchVars, ocVars, cmdVars, startVars, taskVars>>

\* The run of sibling i settles (its value is i).  Promise.all rejects with
\* the first rejection and fulfils, with the values in array order, when every
\* sibling has fulfilled; the siblings still running are left to run.
AllSubEnds(i, ok) ==
    /\ cKind = "all"
    /\ i \in 1..Len(cSub)
    /\ cSub[i] = "running"
    /\ cSub' = [cSub EXCEPT ![i] = IF ok THEN "ok" ELSE "failed"]
    /\ cVals' = [cVals EXCEPT ![i] = IF ok THEN i ELSE 0]
    /\ cOut' = AllOutcome(cOut, cSub', cVals', i)
    /\ cPc' = IF cOut'.st # "pending" THEN "done" ELSE cPc
    /\ cDone' = Append(cDone, i)
    /\ UNCHANGED <<cKind, cTasks, cF, cName, cEnv, cCalls, cApplied>>
    /\ UNCHANGED <<watchVars, ocVars, cmdVars, startVars, taskVars>>

\* the task sequences all(...) is handed: 1..MaxTasks tasks
TaskLists == UNION {[1..n -> Names] : n \in 1..MaxTasks}

NoF == [v \in Values |-> Null]

\* The composite has been built by then, let or all and not yet run:
\*   then: new TaskImpl(this.name, ...)   let: toTask(...), name null
\*   all:  new TaskImpl(name1 === void 0 ? null : name1, ...)
InitComb ==
    /\ cKind \in {"then", "let", "all"}
    /\ cTasks \in (CASE cKind = "then" -> [1..2 -> Names]
                     [] cKind = "let" -> [1..1 -> Names]
                     [] OTHER -> TaskLists)
    /\ cF \in (IF cKind = "let" THEN [Values -> Names] ELSE {NoF})
    /\ cName = (CASE cKind = "then" -> thenName(cTasks[1], cTasks[2])
                  [] cKind = "let" -> Null
                  [] OTHER -> cTasks[1])
    /\ cEnv = [name |-> ""]
    /\ cPc = "built"
    /\ cCalls = <<>>
    /\ cSub = [i \in 1..Len(cTasks) |-> "idle"]
    /\ cVals = [i \in 1..Len(cTasks) |-> 0]
    /\ cApplied = <<>>
    /\ cOut = OutPending
    /\ cDone = <<>>

NextComb ==
    \/ \E n \in EnvNames : ThenRun([name |-> n])
    \/ \E ok \in BOOLEAN : ThenAEnds(ok)
    \/ \E ok \in BOOLEAN, v \in Values : ThenBEnds(ok, v)
    \/ \E n \in EnvNames : LetRun([name |-> n])
    \/ \E ok \in BOOLEAN, v \in Values : LetAEnds(ok, v)
    \/ \E ok \in BOOLEAN, v \in Values : LetTEnds(ok, v)
    \/ \E n \in EnvNames : AllRun([name |-> n])
    \/ \E i \in 1..MaxTasks, ok \in BOOLEAN : AllSubEnds(i, ok)

\* ------------------------------------------------------------------ command templates

\* Two command-template tasks share process.env: command 1 is a template
\* with 0..MaxParts interpolations, command 2 a template without any (as
\* r`rimraf ./out` of tasks.js); the two may run concurrently, as siblings
\* of all do.
Cmds == 1..2

Kinds == {"string", "promise", "task"}

\* the value of process.env.path before any command runs
Path0 == "P"
\* what npmBinPath resolves with
Bin == "bin"

\* strings[k] of command 1 (0-based in the source), and the template of command 2
Lit(k) == IF k = 0 THEN "echo " ELSE " && echo "
Cmd2 == "rimraf ./out"

\* the string interpolation i stands for: a literal string, or what the
\* promise or the task's run resolves with
Value(kinds, i) ==
    (CASE kinds[i] = "string" -> "s" [] kinds[i] = "promise" -> "p" [] OTHER -> "t")
        \o ToString(i)

\* xs.join("")
RECURSIVE join(_)
join(xs) == IF xs = <<>> THEN "" ELSE Head(xs) \o join(Tail(xs))

\* the failures a command's run can reject with
InterpErr(i) == <<"interpolation", i>>
BinErr == <<"npm bin", 0>>
ExitErr(j) == <<"exit", j>>

\* The loop of r from interpolation `from` on: string interpolations are
\* pushed without suspending; the loop stops at the first promise or task,
\* which it awaits.  The result is [idx, xs]: the interpolation awaited
\* (Len + 1: none left) and the pieces pushed.
RECURSIVE loop(_, _, _)
loop(kinds, from, xs) ==
    IF from > Len(kinds) \/ kinds[from] # "string"
    THEN [idx |-> from, xs |-> xs]
    ELSE loop(kinds, from + 1, xs \o <<Value(kinds, from), Lit(from)>>)

\* a bug: the runs of all the task interpolations still ahead are called at
\* once (as Promise.all over the interpolations would)
RunsCalledAhead(kinds, i) == {h \in i..Len(kinds) : kinds[h] = "task"}

\* `await v.run(e)`: the task interpolations whose run is called when the
\* loop reaches interpolation i
RunsCalled(kinds, i) == IF i <= Len(kinds) /\ kinds[i] = "task" THEN {i} ELSE {}

\* a bug: the old value is never written back
RestoreDropped(old, cur) == cur

\* overrideEnvAsync: process.env[key] = oldValue, after `await action()`
Restore(old, cur) == old

\* One pass of r's loop from interpolation `from`, for command 1: up to the
\* next await, or past the loop to `process.env.path + ";" + await npmBinPath`,
\* whose left operand is read before the await.
LoopTo(from, xs) ==
    LET l == loop(rKinds, from, xs)
    IN  /\ rIdx' = l.idx
        /\ rXs' = l.xs
        /\ rIst' = [i \in 1..Len(rKinds) |->
                       IF i \in RunsCalled(rKinds, l.idx) /\ rIst[i] = "none"
                       THEN "pending" ELSE rIst[i]]
        /\ IF l.idx <= Len(rKinds)
           THEN /\ rPc' = [rPc EXCEPT ![1] = "interp"]
                /\ UNCHANGED rRead
           ELSE /\ rPc' = [rPc EXCEPT ![1] = "awaitBin"]
                /\ rRead' = [rRead EXCEPT ![1] = envPath]

\* r`...`.run(e) of command 1: const xs = [strings[0]], then the loop.
CmdRun1 ==
    /\ rPc[1] = "idle"
    /\ LoopTo(1, <<Lit(0)>>)
    /\ UNCHANGED <<envPath, binState, rKinds, rOld, rOut, rSpawned, rFinished>>
    /\ UNCHANGED <<watchVars, ocVars, combVars, startVars, taskVars>>

\* r`...`.run(e) of command 2, which has no interpolation.
CmdRun2 ==
    /\ rPc[2] = "idle"
    /\ rPc' = [rPc EXCEPT ![2] = "awaitBin"]
    /\ rRead' = [rRead EXCEPT ![2] = envPath]
    /\ UNCHANGED <<envPath, binState, rKinds, rIst, rIdx, rXs, rOld, rOut, rSpawned,
                   rFinished>>
    /\ UNCHANGED <<watchVars, ocVars, combVars, startVars, taskVars>>

\* A promise handed to the template, or the run of a task interpolation that
\* has been called, settles.
InterpSettles(i, ok) ==
    /\ i \in 1..Len(rKinds)
    /\ rIst[i] = "pending"
    /\ rIst' = [rIst EXCEPT ![i] = IF ok THEN "resolved" ELSE "rejected"]
    /\ UNCHANGED <<envPath, binState, rKinds, rIdx, rXs, rPc, rRead, rOld, rOut, rSpawned,
                   rFinished>>
    /\ UNCHANGED <<watchVars, ocVars, combVars, startVars, taskVars>>

\* The await of the loop returns: the value and strings[i + 1] are pushed and
\* the loop goes on; or it throws, and the run rejects.
CmdResumes ==
    /\ rPc[1] = "interp"
    /\ rIst[rIdx] \in {"resolved", "rejected"}
    /\ IF rIst[rIdx] = "resolved"
       THEN /\ LoopTo(rIdx + 1, rXs \o <<Value(rKinds, rIdx), Lit(rIdx)>>)
            /\ UNCHANGED rOut
       ELSE /\ rPc' = [rPc EXCEPT ![1] = "done"]
            /\ rOut' = [rOut EXCEPT ![1] = OutError(InterpErr(rIdx))]
            /\ UNCHANGED <<rIdx, rXs, rIst, rRead>>
    /\ UNCHANGED <<envPath, binState, rKinds, rOld, rSpawned, rFinished>>
    /\ UNCHANGED <<watchVars, ocVars, combVars, startVars, taskVars>>

\* const npmBinPath = execAsync("npm bin").then(...): the promise settles.
BinSettles(ok) ==
    /\ binState = "pending"
    /\ binState' = IF ok THEN "resolved" ELSE "rejected"
    /\ UNCHANGED <<envPath, rKinds, rIst, rIdx, rXs, rPc, rRead, rOld, rOut, rSpawned,
                   rFinished>>
    /\ UNCHANGED <<watchVars, ocVars, combVars, startVars, taskVars>>

\* `await npmBinPath` returns and overrideEnvAsync is called: oldValue is
\* read, the variable is set and action() spawns the process; or the await
\* throws, and the run rejects.
CmdOverrides(j) ==
    /\ rPc[j] = "awaitBin"
    /\ binState # "pending"
    /\ IF binState = "resolved"
       THEN /\ rOld' = [rOld EXCEPT ![j] = envPath]
            /\ envPath' = rRead[j] \o ";" \o Bin
            /\ rSpawned' = Append(rSpawned,
                                  [cmd |-> j, command |-> IF j = 1 THEN join(rXs) ELSE Cmd2])
            /\ rPc' = [rPc EXCEPT ![j] = "spawned"]
            /\ UNCHANGED rOut
       ELSE /\ rPc' = [rPc EXCEPT ![j] = "done"]
            /\ rOut' = [rOut EXCEPT ![j] = OutError(BinErr)]
            /\ UNCHANGED <<rOld, envPath, rSpawned>>
    /\ UNCHANGED <<binState, rKinds, rIst, rIdx, rXs, rRead, rFinished>>
    /\ UNCHANGED <<watchVars, ocVars, combVars, startVars, taskVars>>

\* The spawned process ends.  Exit code 0: `await action()` returns, the old
\* value is written back and the run resolves.  Otherwise (non-zero code,
\* signal, spawn error) the await throws: the lines after it are not run.
SpawnEnds(j, ok) ==
    /\ rPc[j] = "spawned"
    /\ rPc' = [rPc EXCEPT ![j] = "done"]
    /\ rFinished' = Append(rFinished, j)
    /\ envPath' = IF ok THEN Restore(rOld[j], envPath) ELSE envPath
    /\ rOut' = [rOut EXCEPT ![j] = IF ok THEN OutValue(<<>>) ELSE OutError(ExitErr(j))]
    /\ UNCHANGED <<binState, rKinds, rIst, rIdx, rXs, rRead, rOld, rSpawned>>
    /\ UNCHANGED <<watchVars, ocVars, combVars, startVars, taskVars>>

\* the templates command 1 may be built from
KindLists == UNION {[1..n -> Kinds] : n \in 0..MaxParts}

\* The commands are built and not yet run: a promise handed to the template
\* is already pending, a task is not yet run, a string is there.
InitCmd ==
    /\ envPath = Path0
    /\ binState = "pending"
    /\ rKinds \in KindLists
    /\ rIst = [i \in 1..Len(rKinds) |->
                  CASE rKinds[i] = "string" -> "resolved"
                    [] rKinds[i] = "promise" -> "pending"
                    [] OTHER -> "none"]
    /\ rIdx = 0
    /\ rXs = <<>>
    /\ rPc = [j \in Cmds |-> "idle"]
    /\ rRead = [j \in Cmds |-> ""]
    /\ rOld = [j \in Cmds |-> ""]
    /\ rOut = [j \in Cmds |-> OutPending]
    /\ rSpawned = <<>>
    /\ rFinished = <<>>

NextCmd ==
    \/ CmdRun1
    \/ CmdRun2
    \/ \E i \in 1..MaxParts, ok \in BOOLEAN : InterpSettles(i, ok)
    \/ CmdResumes
    \/ \E ok \in BOOLEAN : BinSettles(ok)
    \/ \E j \in Cmds : CmdOverrides(j)
    \/ \E j \in Cmds, ok \in BOOLEAN : SpawnEnds(j, ok)

\* ------------------------------------------------------------------ start

\* process.argv[2] when the command line has no argument
Undefined == "<undefined>"

\* the keys a task mapping may have, and the arguments the command line may
\* carry: "toString" is a property every object inherits and never an own key
KeyNames == {"build", "watch", "", "-"}
ArgNames == KeyNames \cup {"toString"}

\* the names /\w[\w:]*/.test(name) accepts: those holding a word character
WordNames == {"build", "watch", "toString"}

\* path.basename(process.argv[1])
Script == "tasks.js"

\* A message is the sequence of the pieces its template literal concatenates.
\* ks.map(k => "'" + k + "'").join(" ")
RECURSIVE quoteJoin(_)
quoteJoin(ks) ==
    IF ks = <<>> THEN <<>>
    ELSE <<"'", Head(ks), "'">>
         \o (IF Tail(ks) = <<>> THEN <<>> ELSE <<" ">> \o quoteJoin(Tail(ks)))

\* "available tasks: " + ...
getAvailableTasksMessage(ks) == <<"available tasks: ">> \o quoteJoin(ks)

\* (name0 == null || name0 == "") ? "any_task_name"
\*     : (/\w[\w:]*/.test(name0)) ? name0 : "'" + name0 + "'"
egName(ks) ==
    IF ks = <<>> \/ ks[1] = "" THEN <<"any_task_name">>
    ELSE IF ks[1] \in WordNames THEN <<ks[1]>>
    ELSE <<"'", ks[1], "'">>

\* the grave accent that encloses the example command of the message
GraveAccent == "<grave accent>"

requireMessage(ks) ==
    <<"require task name. e.g. ", GraveAccent, "node ", Script, " ">> \o egName(ks)
        \o <<GraveAccent, ". ">> \o getAvailableTasksMessage(ks) \o <<".">>

notDefinedMessage(n, ks) ==
    <<"task '", n, "' is not defined. ">> \o getAvailableTasksMessage(ks) \o <<".">>

\* what a rejected task factory, and a failed run of the started task, throw
FactoryMsg == <<"factory failed">>
RunMsg == <<"task failed">>

\* a bug: any argument is taken for a key of the mapping
isDefinedAlways(ks, n) == TRUE

\* taskNames.indexOf(taskName) !== -1
isDefined(ks, n) == \E i \in 1..Len(ks) : ks[i] = n

\* TaskImpl.start: const name = this.name || "_"
startName(name) == IF name \in {Null, ""} THEN "_" ELSE name

\* startAsync rejects with msg; handleError's catch prints it.
StartFails(msg) ==
    /\ sOut' = [st |-> "rejected", msg |-> msg]
    /\ sErrLog' = Append(sErrLog, msg)
    /\ sPc' = "done"
    /\ UNCHANGED sStarted

\* startAsync from `const taskName = process.argv[2]` on: the two usage
\* errors, or task.withName(taskName).start(), which calls the task's run.
Dispatch ==
    /\ sTasks' = "ready"
    /\ IF sArg = Undefined THEN StartFails(requireMessage(sKeys))
       ELSE IF ~isDefined(sKeys, sArg) THEN StartFails(notDefinedMessage(sArg, sKeys))
       ELSE /\ sStarted' = Append(sStarted,
                                  [task |-> sArg, name |-> sArg, env |-> startName(sArg)])
            /\ sOut' = [st |-> "fulfilled", msg |-> <<>>]
            /\ sPc' = "running"
            /\ UNCHANGED sErrLog

\* start(tasksOrFunction): a mapping is used as it is; a factory is called
\* and awaited.
StartCall ==
    /\ sPc = "idle"
    /\ IF sFactory
       THEN /\ sPc' = "awaitFactory"
            /\ UNCHANGED <<sTasks, sStarted, sOut, sErrLog>>
       ELSE Dispatch
    /\ UNCHANGED <<sFactory, sKeys, sArg>>
    /\ UNCHANGED <<watchVars, ocVars, combVars, cmdVars, taskVars>>

\* `await tasksOrFunction()` returns the mapping, or throws.
FactorySettles(ok) ==
    /\ sPc = "awaitFactory"
    /\ IF ok
       THEN Dispatch
       ELSE /\ sTasks' = "failed"
            /\ StartFails(FactoryMsg)
    /\ UNCHANGED <<sFactory, sKeys, sArg>>
    /\ UNCHANGED <<watchVars, ocVars, combVars, cmdVars, taskVars>>

\* The run of the started task settles: handleError(this.run({ name }))
\* prints a failure.
StartRunEnds(ok) ==
    /\ sPc = "running"
    /\ sPc' = "done"
    /\ sErrLog' = IF ok THEN sErrLog ELSE Append(sErrLog, RunMsg)
    /\ UNCHANGED <<sFactory, sKeys, sArg, sTasks, sStarted, sOut>>
    /\ UNCHANGED <<watchVars, ocVars, combVars, cmdVars, taskVars>>

\* Object.keys of a mapping: up to MaxKeys keys, none twice
KeyLists ==
    {ks \in UNION {[1..n -> KeyNames] : n \in 0..MaxKeys} :
        \A i, j \in 1..Len(ks) : i # j => ks[i] # ks[j]}

\* start has not been called yet.
InitStart ==
    /\ sFactory \in BOOLEAN
    /\ sKeys \in KeyLists
    /\ sArg \in {Undefined} \cup ArgNames
    /\ sTasks = "unknown"
    /\ sPc = "idle"
    /\ sStarted = <<>>
    /\ sOut = [st |-> "pending", msg |-> <<>>]
    /\ sErrLog = <<>>

NextStart ==
    \/ StartCall
    \/ \E ok \in BOOLEAN : FactorySettles(ok)
    \/ \E ok \in BOOLEAN : StartRunEnds(ok)

\* ------------------------------------------------------------------ task objects

\* A TaskImpl object is [name, run]; run is the closure it was built with:
\* [op, of], with `of` the objects the closure refers to (positions in tHeap).
\* toTask(run) / wrap(run): new TaskImpl(null, run), the underlying work
toTask == [name |-> Null, run |-> [op |-> "work", of |-> <<>>]]

\* a bug: the name is assigned to the task itself
withNameInPlace(heap, t, name) == [heap EXCEPT ![t].name = name]

\* withName(name) { return new TaskImpl(name, this.run) }
withName(heap, t, name) == Append(heap, [name |-> name, run |-> heap[t].run])

\* then: new TaskImpl(this.name, async e => ...)
then(heap, a, b) ==
    Append(heap, [name |-> heap[a].name, run |-> [op |-> "then", of |-> <<a, b>>]])

\* let: toTask(async e => ...)
let(heap, a) == Append(heap, [name |-> Null, run |-> [op |-> "let", of |-> <<a>>]])

\* watch: new TaskImpl(this.name, env => new Promise(...))
watch(heap, a) ==
    Append(heap, [name |-> heap[a].name, run |-> [op |-> "watch", of |-> <<a>>]])

\* allArray: new TaskImpl(tasks[0].name, env => ...)
allArray(heap, ts) ==
    Append(heap, [name |-> heap[ts[1]].name, run |-> [op |-> "all", of |-> ts]])

\* one run of the closure r completes: the promise of a watch never
\* resolves, the work itself is taken to succeed
RECURSIVE Completes(_, _)
Completes(heap, r) ==
    CASE r.op = "work" -> TRUE
      [] r.op = "watch" -> FALSE
      [] OTHER -> \A i \in 1..Len(r.of) : Completes(heap, heap[r.of[i]].run)

\* how many times one run of the closure r executes the underlying work:
\* then runs b once a has completed, all runs every task, let runs a (the
\* task its continuation makes is not an object of the heap), watch runs
\* nothing until a change is notified
RECURSIVE NWork(_, _)
NWork(heap, r) ==
    CASE r.op = "work" -> 1
      [] r.op = "watch" -> 0
      [] r.op = "let" -> NWork(heap, heap[r.of[1]].run)
      [] r.op = "then" ->
            NWork(heap, heap[r.of[1]].run)
            + (IF Completes(heap, heap[r.of[1]].run)
               THEN NWork(heap, heap[r.of[2]].run) ELSE 0)
      [] OTHER -> NWork(heap, heap[r.of[1]].run) + NWork(heap, heap[r.of[2]].run)

\* the closures of the watch tasks one run of the closure r starts, in order
RECURSIVE Watches(_, _)
Watches(heap, r) ==
    CASE r.op = "work" -> <<>>
      [] r.op = "watch" -> <<r>>
      [] r.op = "let" -> Watches(heap, heap[r.of[1]].run)
      [] r.op = "then" ->
            Watches(heap, heap[r.of[1]].run)
            \o (IF Completes(heap, heap[r.of[1]].run)
                THEN Watches(heap, heap[r.of[2]].run) ELSE <<>>)
      [] OTHER -> Watches(heap, heap[r.of[1]].run) \o Watches(heap, heap[r.of[2]].run)

\* `let last = Promise.resolve()`: the chains the run of closure r begins,
\* one for each watch it starts
NewChains(heap, r) ==
    [i \in 1..Len(Watches(heap, r)) |-> [run |-> Watches(heap, r)[i], last |-> 0]]

TWithName(t, name) ==
    /\ Len(tHeap) < MaxObjs
    /\ t \in 1..Len(tHeap)
    /\ tHeap' = withName(tHeap, t, name)
    /\ UNCHANGED <<tRuns, tExecs, tChains, tLinks>>
    /\ UNCHANGED <<watchVars, ocVars, combVars, cmdVars, startVars>>

TThen(a, b) ==
    /\ Len(tHeap) < MaxObjs
    /\ {a, b} \subseteq 1..Len(tHeap)
    /\ tHeap' = then(tHeap, a, b)
    /\ UNCHANGED <<tRuns, tExecs, tChains, tLinks>>
    /\ UNCHANGED <<watchVars, ocVars, combVars, cmdVars, startVars>>

TLet(a) ==
    /\ Len(tHeap) < MaxObjs
    /\ a \in 1..Len(tHeap)
    /\ tHeap' = let(tHeap, a)
    /\ UNCHANGED <<tRuns, tExecs, tChains, tLinks>>
    /\ UNCHANGED <<watchVars, ocVars, combVars, cmdVars, startVars>>

TWatch(a) ==
    /\ Len(tHeap) < MaxObjs
    /\ a \in 1..Len(tHeap)
    /\ tHeap' = watch(tHeap, a)
    /\ UNCHANGED <<tRuns, tExecs, tChains, tLinks>>
    /\ UNCHANGED <<watchVars, ocVars, combVars, cmdVars, startVars>>

TAll(a, b) ==
    /\ Len(tHeap) < MaxObjs
    /\ {a, b} \subseteq 1..Len(tHeap)
    /\ tHeap' = allArray(tHeap, <<a, b>>)
    /\ UNCHANGED <<tRuns, tExecs, tChains, tLinks>>
    /\ UNCHANGED <<watchVars, ocVars, combVars, cmdVars, startVars>>

\* t.run(env) is called: the work is executed, and every watch the run
\* starts begins a chain of its own.
TRun(t) ==
    /\ Len(tRuns) < MaxRuns
    /\ t \in 1..Len(tHeap)
    /\ tRuns' = Append(tRuns, tHeap[t].run)
    /\ tExecs' = tExecs + NWork(tHeap, tHeap[t].run)
    /\ tChains' = tChains \o NewChains(tHeap, tHeap[t].run)
    /\ UNCHANGED <<tHeap, tLinks>>
    /\ UNCHANGED <<watchVars, ocVars, combVars, cmdVars, startVars>>

\* A change is notified to the watch of chain c: a run of the wrapped task is
\* chained on that chain's `last`, and executed.
TNotify(c) ==
    /\ Len(tLinks) < MaxRuns
    /\ c \in 1..Len(tChains)
    /\ LET w == tHeap[tChains[c].run.of[1]].run
       IN  /\ tLinks' = Append(tLinks, [chain |-> c, on |-> tChains[c].last, run |-> w])
           /\ tExecs' = tExecs + NWork(tHeap, w)
           /\ tChains' = [tChains EXCEPT ![c].last = Len(tLinks) + 1] \o NewChains(tHeap, w)
    /\ UNCHANGED <<tHeap, tRuns>>
    /\ UNCHANGED <<watchVars, ocVars, combVars, cmdVars, startVars>>

\* One task has been made from the underlying work, and nothing run.
InitTask ==
    /\ tHeap = <<toTask>>
    /\ tRuns = <<>>
    /\ tExecs = 0
    /\ tChains = <<>>
    /\ tLinks = <<>>

NextTask ==
    \/ \E t \in 1..MaxObjs, name \in {"a", "b"} : TWithName(t, name)
    \/ \E a, b \in 1..MaxObjs : TThen(a, b)
    \/ \E a \in 1..MaxObjs : TLet(a)
    \/ \E a \in 1..MaxObjs : TWatch(a)
    \/ \E a, b \in 1..MaxObjs : TAll(a, b)
    \/ \E t \in 1..MaxObjs : TRun(t)
    \/ \E c \in 1..MaxRuns : TNotify(c)

\* ------------------------------------------------------------------ specifications

\* the watch task is not running in the behaviours of the other specifications
IdleWatch ==
    /\ variant = "chokidar"
    /\ last = 0
    /\ links = <<>>
    /\ result = Pending
    /\ listeners = {}
    /\ closed = FALSE
    /\ adapterErrored = FALSE
    /\ changes = 0
    /\ log = <<>>
    /\ firstFailure = NoErr

IdleOnChange ==
    /\ ocNext = -1
    /\ ocRunning = <<>>
    /\ ocPending = <<>>
    /\ ocLog = <<>>

\* no composite task is built in the behaviours of the other specifications
IdleComb ==
    /\ cKind = "none"
    /\ cTasks = <<>>
    /\ cF = NoF
    /\ cName = Null
    /\ cEnv = [name |-> ""]
    /\ cPc = "built"
    /\ cCalls = <<>>
    /\ cSub = <<>>
    /\ cVals = <<>>
    /\ cApplied = <<>>
    /\ cOut = OutPending
    /\ cDone = <<>>

\* no command runs in the behaviours of the other specifications
IdleCmd ==
    /\ envPath = Path0
    /\ binState = "pending"
    /\ rKinds = <<>>
    /\ rIst = <<>>
    /\ rIdx = 0
    /\ rXs = <<>>
    /\ rPc = [j \in Cmds |-> "idle"]
    /\ rRead = [j \in Cmds |-> ""]
    /\ rOld = [j \in Cmds |-> ""]
    /\ rOut = [j \in Cmds |-> OutPending]
    /\ rSpawned = <<>>
    /\ rFinished = <<>>

\* start is not called in the behaviours of the other specifications
IdleStart ==
    /\ sFactory = FALSE
    /\ sKeys = <<>>
    /\ sArg = Undefined
    /\ sTasks = "unknown"
    /\ sPc = "idle"
    /\ sStarted = <<>>
    /\ sOut = [st |-> "pending", msg |-> <<>>]
    /\ sErrLog = <<>>

\* no task is constructed in the behaviours of the other specifications
IdleTask ==
    /\ tHeap = <<>>
    /\ tRuns = <<>>
    /\ tExecs = 0
    /\ tChains = <<>>
    /\ tLinks = <<>>

WatchInit == InitWatch /\ IdleOnChange /\ IdleComb /\ IdleCmd /\ IdleStart /\ IdleTask

SpecWatch == WatchInit /\ [][NextWatch]_vars

OnChangeInit == InitOnChange /\ IdleWatch /\ IdleComb /\ IdleCmd /\ IdleStart /\ IdleTask

SpecOnChange == OnChangeInit /\ [][NextOnChange]_vars

CombInit == InitComb /\ IdleWatch /\ IdleOnChange /\ IdleCmd /\ IdleStart /\ IdleTask

SpecComb == CombInit /\ [][NextComb]_vars

CmdInit == InitCmd /\ IdleWatch /\ IdleOnChange /\ IdleComb /\ IdleStart /\ IdleTask

SpecCmd == CmdInit /\ [][NextCmd]_vars

StartInit == InitStart /\ IdleWatch /\ IdleOnChange /\ IdleComb /\ IdleCmd /\ IdleTask

SpecStart == StartInit /\ [][NextStart]_vars

TaskInit == InitTask /\ IdleWatch /\ IdleOnChange /\ IdleComb /\ IdleCmd /\ IdleStart

SpecTask == TaskInit /\ [][NextTask]_vars

\* ------------------------------------------------------------------ claims: watch

InFlight == {k \in 1..Len(links) : links[k].st = "running"}
Failed == {k \in 1..Len(links) : links[k].st = "rejected" /\ links[k].err = RunErr(k)}
Skipped == {k \in 1..Len(links) : links[k].st = "rejected" /\ links[k].err # RunErr(k)}
Begins == SelectSeq(log, LAMBDA ev : ev[1] = "begin")
Quiescent == \A k \in 1..Len(links) : links[k].st \in {"fulfilled", "rejected"}

\* C1: at most one execution of the wrapped task's run is in flight, whatever
\* the sequence and timing of the change notifications (both variants).
C1_AtMostOneInFlight == Cardinality(InFlight) <= 1

\* C1 witness: a run is in flight while two later triggers wait behind it, an
\* earlier run having completed.
C1_Witness ==
    \E k \in 2..Len(links) :
        /\ links[k].st = "running"
        /\ Len(links) >= k + 2
        /\ links[k + 1].st = "waiting"
        /\ links[k + 2].st = "waiting"

\* C2: one run per trigger, none lost, in trigger order: the runs begun are
\* the links 1, 2, 3, ... in that order, each after the run before it has
\* settled, and once the chain is at rest every trigger has had its run.
C2_OneRunPerTrigger ==
    /\ \A i \in 1..Len(Begins) : Begins[i][2] = i
    /\ \A k \in 2..Len(links) :
           links[k].st = "running" => links[k - 1].st \in {"fulfilled", "rejected"}
    /\ Quiescent => Len(Begins) = Len(links)

\* C4: once the adapter has reported an error, no listener is attached, the
\* adapter is closed, the result is rejected with that error (unless it was
\* rejected before), and no change notification received after it chains a run.
C4_AdapterErrorTerminates ==
    adapterErrored =>
        /\ listeners = {}
        /\ closed
        /\ result.st = "rejected"
        /\ (result.reason = WatchErr \/ firstFailure # WatchErr)
        /\ \A k \in 1..Len(links) : ~links[k].lateFor

\* C5 (as claimed): the result never resolves, and whenever it is settled the
\* adapter has reported an error.
C5_SettledOnlyByAdapterError ==
    /\ result.st \in {"pending", "rejected"}
    /\ result.st = "rejected" => adapterErrored

\* C5 (amended): the result never resolves; when it is settled it is rejected
\* with the adapter's error, the adapter having reported it, or, in the
\* chokidar variant only, with the failure of a run of the wrapped task that
\* was the first failure encountered.
C5_SettledOnlyByFailure ==
    /\ result.st \in {"pending", "rejected"}
    /\ result.st = "rejected" =>
        \/ result.reason = WatchErr /\ adapterErrored
        \/ /\ variant = "chokidar"
           /\ result.reason = firstFailure
           /\ \E k \in Failed : result.reason = RunErr(k)

\* C5 witness: the result is rejected by a failed run, the adapter never
\* having reported an error, and a later run has succeeded.
C5_Witness ==
    /\ result.st = "rejected"
    /\ ~adapterErrored
    /\ \E k \in Failed : result.reason = RunErr(k)
    /\ \E k \in 1..Len(links) : links[k].st = "fulfilled"

\* C6: when a run of the wrapped task fails, the result of the watch task is
\* rejected, with the first failure encountered.
C6_RunFailureRejects ==
    Failed # {} => result.st = "rejected" /\ result.reason = firstFailure

\* C7: a failed run does not end watching: unless the adapter has reported an
\* error the listeners stay attached and the adapter open, and no trigger,
\* queued behind the failed run or received after it, loses its run.
C7_FailureKeepsWatching ==
    /\ (Failed # {} /\ ~adapterErrored) =>
           listeners = {"error", ChangeEvent(variant)} /\ ~closed
    /\ Skipped = {}

\* the links whose run has been started
Begun == {Begins[i][2] : i \in 1..Len(Begins)}

\* the position in the log of the adapter's error
ErrorAt == CHOOSE p \in 1..Len(log) : log[p] = <<"error", 0>>

\* the links whose reaction was called or skipped before position p of the log
ReachedBefore(p) == {log[q][2] : q \in {h \in 1..(p - 1) : log[h][1] \in {"begin", "skip"}}}

\* the links whose run had ended or failed before position p of the log
EndedBefore(p) == {log[q][2] : q \in {h \in 1..(p - 1) : log[h][1] \in {"end", "fail"}}}

\* the links that were chained behind an in-flight run when the adapter
\* reported its error
QueuedAtError ==
    IF adapterErrored /\ \E k \in ReachedBefore(ErrorAt) : k \notin EndedBefore(ErrorAt)
                               /\ <<"begin", k>> \in {log[q] : q \in 1..ErrorAt}
    THEN {k \in 1..Len(links) : ~links[k].lateFor /\ k \notin ReachedBefore(ErrorAt)}
    ELSE {}

\* C20: runs are caused only by change notifications - never more runs
\* started than notifications received, which are never more than the changes
\* that happened; and the adapter's error, which rejects the result, cancels
\* no queued work: once the chain is at rest every run that was chained
\* behind an in-flight run when the adapter reported its error has been
\* executed, one at a time.
C20_QueuedRunsSurviveError ==
    /\ Len(Begins) <= Len(links)
    /\ Len(links) <= changes
    /\ Cardinality(InFlight) <= 1
    /\ adapterErrored => result.st = "rejected"
    /\ Quiescent => QueuedAtError \subseteq Begun

\* the promises of the chain that are rejected with no reaction attached:
\* in the fs.watch variant nothing follows the link `last` refers to
Unhandled ==
    {k \in 1..Len(links) :
        /\ variant = "fs"
        /\ links[k].st = "rejected"
        /\ ~\E j \in 1..Len(links) : links[j].on = k}

\* C16: no failure of a run of the wrapped task leaves a rejected promise that
\* nothing handles.
C16_NoUnhandledRejection == Unhandled = {}

\* ------------------------------------------------------------------ claims: makeOnChange

\* the values of the "trigger" entries of lg[from..to], in order
RECURSIVE TriggersIn(_, _, _)
TriggersIn(lg, from, to) ==
    IF from > to THEN <<>>
    ELSE (IF lg[from][1] = "trigger" THEN lg[from][2] ELSE <<>>)
         \o TriggersIn(lg, from + 1, to)

\* the place of the last "begin" entry of lg before place p (0: none)
RECURSIVE LastBegin(_, _)
LastBegin(lg, p) ==
    IF p <= 1 THEN 0
    ELSE IF lg[p - 1][1] = "begin" THEN p - 1
    ELSE LastBegin(lg, p - 1)

\* no run of f is in flight just before place p of lg
IdleBefore(lg, p) ==
    \A q \in 1..(p - 1) :
        lg[q][1] = "begin" => \E r \in (q + 1)..(p - 1) : lg[r] = <<"end", lg[q][2]>>

\* C3: a trigger that arrives while no run of f is in flight starts f at once
\* with that trigger alone; the triggers that arrive while a run is in flight
\* make up, in trigger order, the argument list of one run, which begins
\* when the run in flight ends.
C3_BatchedRuns ==
    /\ \A p \in 1..Len(ocLog) :
           ocLog[p][1] = "begin" =>
               /\ p > 1
               /\ \/ /\ ocLog[p - 1][1] = "trigger"
                     /\ IdleBefore(ocLog, p - 1)
                     /\ ocLog[p][2] = ocLog[p - 1][2]
                  \/ /\ ocLog[p - 1][1] = "end"
                     /\ ocLog[p - 1][2] = ocLog[LastBegin(ocLog, p)][2]
                     /\ ocLog[p][2] # <<>>
                     /\ ocLog[p][2] = TriggersIn(ocLog, LastBegin(ocLog, p) + 1, p - 2)
    /\ \A p \in 1..Len(ocLog) :
           (ocLog[p][1] = "trigger" /\ IdleBefore(ocLog, p)) =>
               /\ p < Len(ocLog)
               /\ ocLog[p + 1] = <<"begin", ocLog[p][2]>>
    /\ ocPending = (IF ocRunning = <<>> THEN <<>>
                    ELSE TriggersIn(ocLog, LastBegin(ocLog, Len(ocLog) + 1) + 1, Len(ocLog)))

\* C3 witness: the log the test asserts, 10 triggers with the runs [9],
\* [8,7,6,5] and [4,3,2,1,0].
C3_Witness ==
    ocLog = << <<"trigger", <<9>>>>, <<"begin", <<9>>>>,
               <<"trigger", <<8>>>>, <<"trigger", <<7>>>>, <<"trigger", <<6>>>>,
               <<"trigger", <<5>>>>,
               <<"end", <<9>>>>, <<"begin", <<8, 7, 6, 5>>>>,
               <<"trigger", <<4>>>>, <<"trigger", <<3>>>>, <<"trigger", <<2>>>>,
               <<"trigger", <<1>>>>, <<"trigger", <<0>>>>,
               <<"end", <<8, 7, 6, 5>>>>, <<"begin", <<4, 3, 2, 1, 0>>>> >>

\* ------------------------------------------------------------------ claims: then, let, all

CallsOf(i) == {n \in 1..Len(cCalls) : cCalls[n].task = i}

\* C8: a.then(b).run(e) invokes b.run only after a's run has completed
\* successfully; when a fails b is never run and the composite rejects with
\* a's failure; the composite fails iff a or b fails, and on success it
\* returns b's result.
C8_ThenSequences ==
    cKind = "then" /\ cPc # "built" =>
        /\ cCalls[1].task = 1
        /\ CallsOf(2) # {} => (cSub[1] = "ok" /\ CallsOf(2) = {2})
        /\ cSub[1] = "running" => (cOut.st = "pending" /\ CallsOf(2) = {})
        /\ cSub[1] = "failed" => (CallsOf(2) = {} /\ cOut = OutError(SubErr(1)))
        /\ cSub[2] = "failed" => cOut = OutError(SubErr(2))
        /\ cSub = <<"ok", "ok">> => cOut = OutValue(<<cVals[2]>>)
        /\ cOut.st = "rejected" <=> (cSub[1] = "failed" \/ cSub[2] = "failed")
        /\ cOut.st = "fulfilled" <=> cSub = <<"ok", "ok">>

\* C8 witness: a has failed, and the composite is settled without b having run.
C8_Witness ==
    /\ cKind = "then"
    /\ cSub = <<"failed", "idle">>
    /\ cPc = "done"
    /\ Len(cCalls) = 1

\* the name of derive(E, n): E.name when n is empty or absent, E.name.n otherwise
DerivedName(E, n) == IF n = Null \/ n = "" THEN E.name ELSE E.name \o "." \o n

\* C18: a.then(b) has a's name; on run(env) a is run with an environment
\* named derive(env, a.name) and b with one named derive(env, b.name) - derived
\* from env itself, which the derivation for a has left as it was.
C18_ThenNaming ==
    cKind = "then" =>
        /\ cName = cTasks[1]
        /\ \A n \in 1..Len(cCalls) :
               cCalls[n].env.name = DerivedName(cEnv, cTasks[cCalls[n].task])
        /\ cPc # "built" => cCalls[1].task = 1
        /\ cSub[1] = "ok" => (Len(cCalls) = 2 /\ cCalls[2].task = 2)

\* C18 witness: a and b carry different non-empty names and both have been
\* run, under "build.a" and "build.b".
C18_Witness ==
    /\ cKind = "then"
    /\ cTasks = <<"a", "b">>
    /\ cName = "a"
    /\ cPc = "done"
    /\ Len(cCalls) = 2
    /\ cCalls[1].env.name = "build.a"
    /\ cCalls[2].env.name = "build.b"

\* what C9 says of a.let(f).run(e) apart from the environment of t: a is run
\* with derive(e, a.name); f is applied, once, to the value of a, only when a
\* has fulfilled; when a fails f is not applied and t is not run.
LetAwaitsA ==
    /\ cCalls[1] = [task |-> 1, env |-> combineName(cEnv, cTasks[1])]
    /\ cSub[1] = "ok" => (cApplied = <<cVals[1]>> /\ CallsOf(2) = {2}
                           /\ cTasks[2] = cF[cVals[1]])
    /\ cSub[1] # "ok" => (cApplied = <<>> /\ CallsOf(2) = {} /\ Len(cTasks) = 1)
    /\ cSub[1] = "failed" => cOut = OutError(SubErr(1))

\* C9 (as claimed): t = f(v) is run with the environment
\* derive(derive(e, a.name), t.name).
C9_LetEnvNested ==
    cKind = "let" /\ cPc # "built" =>
        /\ LetAwaitsA
        /\ \A n \in CallsOf(2) :
               cCalls[n].env = combineName(combineName(cEnv, cTasks[1]), cTasks[2])

\* C9 (amended): t = f(v) is run with the environment derive(e, t.name): the
\* name segment of a is not part of it.
C9_LetEnvOfT ==
    cKind = "let" /\ cPc # "built" =>
        /\ LetAwaitsA
        /\ \A n \in CallsOf(2) : cCalls[n].env = combineName(cEnv, cTasks[2])

\* C9 witness: a, named "a", has resolved and t = f(v), named "b", is run
\* with the environment name e.name + ".b".
C9_Witness ==
    /\ cKind = "let"
    /\ cTasks = <<"a", "b">>
    /\ cSub[1] = "ok"
    /\ cCalls[2].env.name = cEnv.name \o ".b"

\* C10: the siblings of all are run with the names derive(env, ti.name) when
\* these are pairwise distinct, and otherwise every one of them with
\* env.name + "." + i (1-based); either way the names are pairwise distinct.
C10_AllEnvNames ==
    cKind = "all" /\ cPc # "built" =>
        LET n == Len(cTasks)
            derived == [i \in 1..n |-> combineName(cEnv, cTasks[i]).name]
            distinct == \A i, j \in 1..n : i # j => derived[i] # derived[j]
        IN  /\ Len(cCalls) = n
            /\ \A i \in 1..n : cCalls[i].task = i
            /\ distinct => \A i \in 1..n : cCalls[i].env.name = derived[i]
            /\ ~distinct =>
                   \A i \in 1..n : cCalls[i].env.name = cEnv.name \o "." \o ToString(i)
            /\ \A i, j \in 1..n : i # j => cCalls[i].env.name # cCalls[j].env.name

\* C10 witness: two of three siblings derive the same name, and the third,
\* whose derived name is its own, is run with the index name too.
C10_Witness ==
    /\ cKind = "all"
    /\ cTasks = <<"a", "a", "b">>
    /\ cPc = "running"
    /\ cCalls[3].env.name = cEnv.name \o ".3"

\* C11: all runs every sibling, in array order, before it awaits any of them
\* (no sibling is left to start after another has settled), and when all have
\* fulfilled it returns their values in array order, whatever the order in
\* which they settled.
C11_AllFansOut ==
    cKind = "all" /\ cPc # "built" =>
        LET n == Len(cTasks)
        IN  /\ Len(cCalls) = n
            /\ \A i \in 1..n : cCalls[i].task = i /\ cSub[i] # "idle"
            /\ (\A i \in 1..n : cSub[i] = "ok") <=> cOut.st = "fulfilled"
            /\ cOut.st = "fulfilled" => cOut.val = [i \in 1..n |-> i]

\* C11 witness: three siblings have fulfilled in the order 3, 1, 2 and the
\* composite has resolved with <<1, 2, 3>>.
C11_Witness ==
    /\ cKind = "all"
    /\ cDone = <<3, 1, 2>>
    /\ cOut = OutValue(<<1, 2, 3>>)

\* the failed siblings of all, and the one that failed first in time
FailedSubs == {i \in 1..Len(cSub) : cSub[i] = "failed"}
FirstFailed ==
    cDone[CHOOSE p \in 1..Len(cDone) :
              /\ cDone[p] \in FailedSubs
              /\ \A q \in 1..(p - 1) : cDone[q] \notin FailedSubs]

\* C12: all fails iff at least one sibling fails, with the rejection that
\* came first in time; the siblings still running then are not cancelled:
\* each of them can still complete or fail.
C12_AllFirstRejection ==
    cKind = "all" /\ cPc # "built" =>
        /\ cOut.st = "rejected" <=> FailedSubs # {}
        /\ FailedSubs # {} => cOut = OutError(SubErr(FirstFailed))
        /\ \A i \in 1..Len(cSub) :
               cSub[i] = "running" =>
                   ENABLED AllSubEnds(i, TRUE) /\ ENABLED AllSubEnds(i, FALSE)

\* C12 witness: sibling 3 failed first and the composite rejected with its
\* failure; after that sibling 2 completed and sibling 1 failed.
C12_Witness ==
    /\ cKind = "all"
    /\ cDone = <<3, 2, 1>>
    /\ cSub = <<"failed", "ok", "failed">>
    /\ cOut = OutError(SubErr(3))

\* ------------------------------------------------------------------ claims: command templates

\* xs after the first n interpolations of command 1 have been pushed
RECURSIVE Pieces(_, _)
Pieces(kinds, n) ==
    IF n = 0 THEN <<Lit(0)>> ELSE Pieces(kinds, n - 1) \o <<Value(kinds, n), Lit(n)>>

Spawned1 == {n \in 1..Len(rSpawned) : rSpawned[n].cmd = 1}

\* what C13 says of the spawn and of a failed interpolation: the process is
\* spawned once every interpolation has resolved, with the literal segments
\* and the values concatenated in order; when the awaited interpolation
\* fails the run rejects with its failure and nothing is spawned.
SpawnAfterInterpolations ==
    /\ rPc[1] \notin {"idle", "interp"} /\ rOut[1].reason \notin {InterpErr(i) : i \in 1..MaxParts + 1}
           => rXs = Pieces(rKinds, Len(rKinds))
    /\ \A n \in Spawned1 :
           /\ \A i \in 1..Len(rKinds) : rIst[i] = "resolved"
           /\ rSpawned[n].command = join(Pieces(rKinds, Len(rKinds)))
    /\ \A i \in 1..Len(rKinds) :
           rOut[1] = OutError(InterpErr(i)) =>
               /\ rIst[i] = "rejected"
               /\ Spawned1 = {}
               /\ \A h \in (i + 1)..Len(rKinds) : rKinds[h] = "task" => rIst[h] = "none"

\* C13 (as claimed): once the command is run, every task or pending
\* interpolation is started only after the interpolation before it has
\* resolved, never two at a time; the process is spawned after all of them,
\* with the pieces concatenated in order; after a failure nothing more runs.
C13_InterpolationsSequential ==
    rPc[1] # "idle" =>
        /\ \A i \in 2..Len(rKinds) :
               (rKinds[i] # "string" /\ rIst[i] # "none") => rIst[i - 1] = "resolved"
        /\ Cardinality({i \in 1..Len(rKinds) : rIst[i] = "pending"}) <= 1
        /\ SpawnAfterInterpolations

\* C13 (amended): the run of a task interpolation is called only after every
\* interpolation before it has resolved and been pushed, so no two task
\* interpolations run at a time; a promise handed to the template is
\* already pending and is only awaited in its turn.  The rest as claimed.
C13_TaskInterpolationsSequential ==
    /\ \A i \in 1..Len(rKinds) :
           (rKinds[i] = "task" /\ rIst[i] # "none") =>
               /\ rPc[1] # "idle"
               /\ rIdx >= i
               /\ \A h \in 1..(i - 1) : rIst[h] = "resolved"
    /\ Cardinality({i \in 1..Len(rKinds) : rKinds[i] = "task" /\ rIst[i] = "pending"}) <= 1
    /\ rPc[1] = "interp" => rXs = Pieces(rKinds, rIdx - 1)
    /\ rPc[1] # "idle" => SpawnAfterInterpolations

\* C13 witness: a template of two task interpolations has spawned its
\* process, with the two values in their places.
C13_Witness ==
    /\ rKinds = <<"task", "task">>
    /\ \E n \in Spawned1 : rSpawned[n].command = "echo t1 && echo t2 && echo "

\* C14: with no other override of the variable under way, the variable has
\* the override value while the action runs, and once the override is over,
\* whether the action succeeded or failed, the value it had before.
C14_ScopedOverrideRestores ==
    \A j \in Cmds :
        (\A h \in Cmds \ {j} : rPc[h] = "idle") =>
            /\ rPc[j] = "spawned" => envPath = rRead[j] \o ";" \o Bin
            /\ rPc[j] = "done" => envPath = Path0

\* C19: when two command tasks have both completed successfully, the variable
\* has the value saved by the one whose process ended last: the original
\* when that one began its override first, and otherwise what it found, which
\* is the other's override value when the two overrides overlapped.
C19_LaterFinisherRestores ==
    (\A j \in Cmds : rOut[j].st = "fulfilled") =>
        /\ Len(rFinished) = 2
        /\ envPath = rOld[rFinished[2]]
        /\ rSpawned[1].cmd = rFinished[2] => envPath = Path0
        /\ envPath # Path0 =>
               /\ rSpawned[2].cmd = rFinished[2]
               /\ envPath = rRead[rSpawned[1].cmd] \o ";" \o Bin

\* C19 witness: both commands have completed successfully and the variable is
\* left at the first command's override value.
C19_Witness ==
    /\ \A j \in Cmds : rOut[j].st = "fulfilled"
    /\ envPath = Path0 \o ";" \o Bin
    /\ envPath # Path0

\* ------------------------------------------------------------------ claims: start

\* the names a message enumerates: the quoted pieces after "available tasks: "
Enumerated(msg) ==
    LET p == CHOOSE q \in 1..Len(msg) : msg[q] = "available tasks: "
    IN  [i \in 1..((Len(msg) - p) \div 4) |-> msg[p + 4 * i - 2]]

\* C15: once startAsync has got the mapping and gone through its checks, a
\* task has been started iff the argument is present and is a key of the
\* mapping - exactly that one, once, given the argument as its name; when the
\* factory fails no task is started; with the mapping there and the argument
\* absent or not a key, no task is started and the one error printed
\* enumerates the keys of the mapping and, for an unknown name, names it.
C15_StartDispatch ==
    sPc \in {"running", "done"} =>
        /\ Len(sStarted) <= 1
        /\ sStarted # <<>> <=>
               /\ sTasks = "ready"
               /\ sArg # Undefined
               /\ \E i \in 1..Len(sKeys) : sKeys[i] = sArg
        /\ sStarted # <<>> =>
               /\ sStarted[1].task = sArg
               /\ sStarted[1].name = sArg
               /\ sStarted[1].env = (IF sArg = "" THEN "_" ELSE sArg)
               /\ sOut.st = "fulfilled"
        /\ (sTasks = "ready" /\ sStarted = <<>>) =>
               /\ sOut.st = "rejected"
               /\ sErrLog = <<sOut.msg>>
               /\ Enumerated(sOut.msg) = sKeys
               /\ sArg = Undefined => sOut.msg[1] = "require task name. e.g. "
               /\ sArg # Undefined =>
                      /\ sOut.msg[1] = "task '"
                      /\ sOut.msg[2] = sArg
                      /\ sOut.msg[3] = "' is not defined. "

\* C15 witness: the factory has made a mapping with two keys, the argument
\* is a name every object inherits but no key, and the error names it.
C15_Witness ==
    /\ sFactory
    /\ sPc = "done"
    /\ sKeys = <<"build", "watch">>
    /\ sArg = "toString"
    /\ sTasks = "ready"
    /\ sStarted = <<>>
    /\ sErrLog = <<notDefinedMessage("toString", sKeys)>>

\* ------------------------------------------------------------------ claims: task objects

\* the executions of the work that the runs of the closures rs account for
RECURSIVE SumWork(_, _)
SumWork(heap, rs) ==
    IF rs = <<>> THEN 0 ELSE NWork(heap, Head(rs)) + SumWork(heap, Tail(rs))

\* the watches that the runs of the closures rs start
RECURSIVE SumWatches(_, _)
SumWatches(heap, rs) ==
    IF rs = <<>> THEN 0 ELSE Len(Watches(heap, Head(rs))) + SumWatches(heap, Tail(rs))

\* the closures run so far: by calls of run, and by change notifications
AllRuns == tRuns \o [l \in 1..Len(tLinks) |-> tLinks[l].run]

\* the latest link chained before link l on the same chain (0: none)
PrevOfChain(l) ==
    LET before == {h \in 1..(l - 1) : tLinks[h].chain = tLinks[l].chain}
    IN  IF before = {} THEN 0 ELSE CHOOSE h \in before : \A g \in before : g <= h

\* no execution state is kept in a task: every run executes the work anew,
\* every run of a watch begins a chain of its own, and a link is chained
\* only on what its own chain held
NothingCached ==
    /\ tExecs = SumWork(tHeap, AllRuns)
    /\ Len(tChains) = SumWatches(tHeap, AllRuns)
    /\ \A l \in 1..Len(tLinks) : tLinks[l].on = PrevOfChain(l)

\* C17: withName and the combinators add one new task and leave every task
\* there is, its name and its run, as it was; running tasks changes no task
\* and keeps no execution state in one.
C17_TasksImmutable ==
    [][/\ Len(tHeap') \in {Len(tHeap), Len(tHeap) + 1}
       /\ \A i \in 1..Len(tHeap) : tHeap'[i] = tHeap[i]
       /\ (tRuns' # tRuns \/ tLinks' # tLinks) => tHeap' = tHeap
       /\ NothingCached']_vars

\* C17 witness: a watch task and its renamed copy share one run; each was
\* run once, the first run's chain has had two notifications while the
\* second run's chain is still the fresh one, and the work ran twice.
C17_Witness ==
    /\ Len(tHeap) = 3
    /\ tHeap[2].run.op = "watch"
    /\ tHeap[3].run = tHeap[2].run
    /\ tHeap[2].name = Null
    /\ tHeap[3].name = "a"
    /\ Len(tChains) = 2
    /\ tChains[1].last = 2
    /\ tChains[2].last = 0
    /\ tExecs = 2

====
